---------------------------- MODULE Spec2Model ----------------------------
(***************************************************************************)
(* Model of the OpenACC V&V results generator (vv-site):                   *)
(*   errorParser.tsx  - getResultReason, getCompilerStatus,                *)
(*                      getRuntimeStatus                                   *)
(*   HomePage         - parseJSONResultsHelper, generateComparisonGraph,   *)
(*                      the upload / mode handlers and effects             *)
(*   DetailsPage.tsx  - the classification effect building the Verdicts   *)
(*                                                                         *)
(* JavaScript values are tagged records.  A string is a non-empty sequence *)
(* of lines (the text split at "\n"); a line is a sequence of chunks; a    *)
(* chunk is a run of characters that the model never has to look inside    *)
(* (a word, a blank " ", the dot of a file name, ...).  The empty string   *)
(* is one empty line.                                                      *)
(***************************************************************************)
EXTENDS Integers, Sequences, FiniteSets, TLC

(***************************************************************************)
(* Bounds                                                                  *)
(***************************************************************************)
MaxTests == 2
MaxRuns == 2
MaxGenerations == 1
MaxReaders == 1

(***************************************************************************)
(* JavaScript values                                                       *)
(***************************************************************************)
Undef == [t |-> "undefined"]
Null == [t |-> "null"]
Num(n) == [t |-> "number", v |-> n]
Bool(b) == [t |-> "boolean", b |-> b]
Str(lines) == [t |-> "string", s |-> lines]
Lit(chunk) == Str(<< <<chunk>> >>)
EmptyStr == Str(<< <<>> >>)

\* typeof x === 'number' / 'string'
IsNum(x) == x.t = "number"
IsStr(x) == x.t = "string"

\* JavaScript truthiness (objects, handled apart, are always truthy)
Truthy(x) ==
  CASE x.t = "undefined" -> FALSE
    [] x.t = "null" -> FALSE
    [] x.t = "number" -> x.v # 0
    [] x.t = "boolean" -> x.b
    [] x.t = "string" -> x.s # << <<>> >>
    [] OTHER -> TRUE

\* a || b
Or(a, b) == IF Truthy(a) THEN a ELSE b

\* x is null or undefined
IsNullish(x) == x.t \in {"undefined", "null"}

\* a ?? b
Coalesce(a, b) == IF IsNullish(a) THEN b ELSE a

\* what an entry point yields when the code raises an error
Threw == [t |-> "throw"]

(***************************************************************************)
(* Strings                                                                 *)
(***************************************************************************)
IsSpace(c) == c = " "

RECURSIVE LTrimLine(_)
LTrimLine(l) ==
  IF l # <<>> /\ IsSpace(Head(l)) THEN LTrimLine(Tail(l)) ELSE l

RECURSIVE RTrimLine(_)
RTrimLine(l) ==
  IF l # <<>> /\ IsSpace(l[Len(l)]) THEN RTrimLine(SubSeq(l, 1, Len(l) - 1)) ELSE l

TrimLine(l) == RTrimLine(LTrimLine(l))

\* String.prototype.trim on a multi-line string: "\n" is white space too
RECURSIVE LTrimLines(_)
LTrimLines(ls) ==
  IF Len(ls) > 1 /\ LTrimLine(Head(ls)) = <<>>
    THEN LTrimLines(Tail(ls))
    ELSE <<LTrimLine(Head(ls))>> \o Tail(ls)

RECURSIVE RTrimLines(_)
RTrimLines(ls) ==
  IF Len(ls) > 1 /\ RTrimLine(ls[Len(ls)]) = <<>>
    THEN RTrimLines(SubSeq(ls, 1, Len(ls) - 1))
    ELSE SubSeq(ls, 1, Len(ls) - 1) \o <<RTrimLine(ls[Len(ls)])>>

TrimLines(ls) == RTrimLines(LTrimLines(ls))

\* x?.trim() for x undefined, null or a string
OptTrim(x) == IF IsStr(x) THEN Str(TrimLines(x.s)) ELSE Undef

\* x?.trim() raises a TypeError when x is neither nullish nor a string: a
\* number, a boolean, an array or an object has no trim method
OptTrimThrows(x) == ~IsNullish(x) /\ ~IsStr(x)

\* toLowerCase, chunk by chunk
LowerChunk(c) ==
  CASE c = "Pass" -> "pass"
    [] c = "PASS" -> "pass"
    [] c = "Unknown" -> "unknown"
    [] c = "C" -> "c"
    [] c = "CPP" -> "cpp"
    [] c = "F90" -> "f90"
    [] c = "A" -> "a"
    [] c = "B" -> "b"
    [] c = "Error:" -> "error:"
    [] c = "FATAL" -> "fatal"
    [] OTHER -> c

LowerLine(l) == [i \in 1..Len(l) |-> LowerChunk(l[i])]
LowerLines(ls) == [i \in 1..Len(ls) |-> LowerLine(ls[i])]

\* Number(s) for a string s: the chunks that spell a number, after trimming;
\* the empty (or all-blank) string converts to 0, anything else to NaN
NumberChunks ==
  [c \in {"0", "1", "2", "3", "-1"} |->
     CASE c = "0" -> 0 [] c = "1" -> 1 [] c = "2" -> 2 [] c = "3" -> 3 [] c = "-1" -> -1]

IsNumericString(ls) ==
  LET tr == TrimLines(ls)
  IN  Len(tr) = 1 /\ (tr[1] = <<>> \/ (Len(tr[1]) = 1 /\ tr[1][1] \in DOMAIN NumberChunks))

StringToNumber(ls) ==
  LET tr == TrimLines(ls)
  IN  IF tr[1] = <<>> THEN 0 ELSE NumberChunks[tr[1][1]]

(***************************************************************************)
(* Run records.  A section is the object stored under `compilation`,       *)
(* `runtime` or `execution`; a field the JSON leaves out is Undef.         *)
(***************************************************************************)
Obj(fields) == [t |-> "object", f |-> fields]

EmptySection ==
  [result |-> Undef, return_code |-> Undef, success |-> Undef,
   errors |-> Undef, stderr |-> Undef, stdout |-> Undef, output |-> Undef]

\* x.field for a section value x: a primitive or an array has none of the
\* fields of a section
Field(x, name) == IF x.t = "object" /\ "f" \in DOMAIN x THEN x.f[name] ELSE Undef

\* run.name for a run that is not nullish: a primitive, an array or an object
\* without that key has no such property
Prop(run, name) == IF run.t = "object" /\ name \in DOMAIN run THEN run[name] ELSE Undef

\* 'success' in section raises a TypeError when section is a primitive
InThrows(section) == section.t \in {"string", "number", "boolean"}

(***************************************************************************)
(* errorParser.tsx                                                         *)
(***************************************************************************)
\* chunks in which the keyword pattern of getResultReason finds a match
KeywordChunks ==
  {"error:", "Error:", "FATAL", "fatal", "undefined", "invalid",
   "segmentation", "core dumped", "not found", "missing", "compilation aborted"}

MatchesKeyword(line) == \E i \in 1..Len(line) : line[i] \in KeywordChunks

RECURSIVE NonBlankTrimmed(_)
NonBlankTrimmed(ls) ==
  IF ls = <<>> THEN <<>>
  ELSE LET l == TrimLine(Head(ls))
       IN  (IF l = <<>> THEN <<>> ELSE <<l>>) \o NonBlankTrimmed(Tail(ls))

RECURSIVE JoinLines(_)
JoinLines(ls) ==
  IF ls = <<>> THEN <<>>
  ELSE IF Len(ls) = 1 THEN ls[1]
  ELSE ls[1] \o <<" | ">> \o JoinLines(Tail(ls))

FirstMatch(ls) ==
  LET hits == {i \in 1..Len(ls) : MatchesKeyword(ls[i])}
  IN  IF hits = {} THEN Undef
      ELSE Str(<<ls[CHOOSE i \in hits : \A j \in hits : i <= j]>>)

\* lines 2-7: the places of getResultReason that raise a TypeError
getResultReasonThrows(run, type) ==
  LET section == IF type = "compiler" THEN Prop(run, "compilation") ELSE Prop(run, "runtime")
  IN  /\ Truthy(section)
      /\ \/ OptTrimThrows(Field(section, "errors"))
         \/ (~Truthy(OptTrim(Field(section, "errors"))) /\ OptTrimThrows(Field(section, "stderr")))
         \/ OptTrimThrows(Field(section, "stdout"))
         \/ OptTrimThrows(Field(section, "output"))

\* getResultReason that puts the stdout text before the error text
getResultReason_stdoutFirst(run, type) ==
  LET section == IF type = "compiler" THEN Prop(run, "compilation") ELSE Prop(run, "runtime")
  IN  IF ~Truthy(section) THEN Lit("N/A")
      ELSE
        LET stderr == Or(OptTrim(Field(section, "errors")),
                         Or(OptTrim(Field(section, "stderr")), EmptyStr))
            stdout == Or(OptTrim(Field(section, "stdout")), EmptyStr)
            output == Or(OptTrim(Field(section, "output")), EmptyStr)
            msg == TrimLines(stdout.s \o stderr.s \o output.s)
        IN  IF msg = << <<>> >> THEN Lit("Unknown")
            ELSE
              LET lines == NonBlankTrimmed(msg)
                  errorLine == FirstMatch(lines)
                  joined == Str(<<JoinLines(SubSeq(lines, 1, IF Len(lines) < 3 THEN Len(lines) ELSE 3))>>)
              IN  Or(errorLine, Or(joined, Lit("Unknown")))

getResultReason(run, type) ==
  LET section == IF type = "compiler" THEN Prop(run, "compilation") ELSE Prop(run, "runtime")
  IN  IF ~Truthy(section) THEN Lit("N/A")
      ELSE
        LET stderr == Or(OptTrim(Field(section, "errors")),
                         Or(OptTrim(Field(section, "stderr")), EmptyStr))
            stdout == Or(OptTrim(Field(section, "stdout")), EmptyStr)
            output == Or(OptTrim(Field(section, "output")), EmptyStr)
            msg == TrimLines(stderr.s \o stdout.s \o output.s)
        IN  IF msg = << <<>> >> THEN Lit("Unknown")
            ELSE
              LET lines == NonBlankTrimmed(msg)
                  errorLine == FirstMatch(lines)
                  joined == Str(<<JoinLines(SubSeq(lines, 1, IF Len(lines) < 3 THEN Len(lines) ELSE 3))>>)
              IN  Or(errorLine, Or(joined, Lit("Unknown")))

\* compilerResult that reports a missing result as the failure code 1
compilerResult_missingFails(section) ==
  LET resultRaw == Coalesce(Field(section, "result"), Field(section, "return_code"))
  IN  IF IsNum(resultRaw) THEN resultRaw
      ELSE IF IsStr(resultRaw) /\ IsNumericString(resultRaw.s)
        THEN Num(StringToNumber(resultRaw.s))
      ELSE IF Field(section, "success") = Bool(TRUE) THEN Num(0)
      ELSE Num(1)

\* lines 32-43: result ?? return_code, then the success flag, then -1
compilerResult(section) ==
  LET resultRaw == Coalesce(Field(section, "result"), Field(section, "return_code"))
  IN  IF IsNum(resultRaw) THEN resultRaw
      ELSE IF IsStr(resultRaw) /\ IsNumericString(resultRaw.s)
        THEN Num(StringToNumber(resultRaw.s))
      ELSE IF Field(section, "success").t # "undefined"
        THEN (IF Field(section, "success") = Bool(TRUE) THEN Num(0) ELSE Num(1))
      ELSE Num(-1)

\* compilerReason that takes stderr text as a failure signal even when the
\* result code is 0
compilerReason_stderrFails(run, result) ==
  IF result = Num(0) /\ ~Truthy(Or(Field(Prop(run, "compilation"), "errors"),
                                   Field(Prop(run, "compilation"), "stderr")))
    THEN Lit("Pass")
  ELSE IF result = Num(-1) THEN Lit("No compilation result")
  ELSE getResultReason(run, "compiler")

\* lines 45-50
compilerReason(run, result) ==
  IF result = Num(0) THEN Lit("Pass")
  ELSE IF result = Num(-1) THEN Lit("No compilation result")
  ELSE getResultReason(run, "compiler")

\* the raw result is neither a number nor a numeric string, so that the
\* `in` test of lines 39 and 76 is reached
ReachesIn(section) ==
  LET resultRaw == Coalesce(Field(section, "result"), Field(section, "return_code"))
  IN  ~IsNum(resultRaw) /\ ~(IsStr(resultRaw) /\ IsNumericString(resultRaw.s))

\* lines 29, 39 and 50: the places of getCompilerStatus that raise a TypeError
getCompilerStatusThrows(run) ==
  \/ IsNullish(run)
  \/ LET section == Or(Prop(run, "compilation"), Obj(EmptySection))
     IN  \/ (ReachesIn(section) /\ InThrows(section))
         \/ /\ compilerResult(section) \notin {Num(0), Num(-1)}
            /\ getResultReasonThrows(run, "compiler")

getCompilerStatus(run) ==
  LET section == Or(Prop(run, "compilation"), Obj(EmptySection))
      result == compilerResult(section)
  IN  [result |-> result,
       reason |-> compilerReason(run, result),
       stderr |-> Or(Field(section, "errors"), Or(Field(section, "stderr"), EmptyStr)),
       stdout |-> Or(Field(section, "output"), Or(Field(section, "stdout"), EmptyStr))]

\* lines 69-80: result ?? return_code, then the success flag, then 'Unknown'
runtimeResult(section) ==
  LET resultRaw == Coalesce(Field(section, "result"), Field(section, "return_code"))
  IN  IF IsNum(resultRaw) THEN resultRaw
      ELSE IF IsStr(resultRaw) /\ IsNumericString(resultRaw.s)
        THEN Num(StringToNumber(resultRaw.s))
      ELSE IF Field(section, "success").t # "undefined"
        THEN (IF Field(section, "success") = Bool(TRUE) THEN Num(0) ELSE Num(1))
      ELSE Lit("Unknown")

\* lines 85-90
runtimeReason(run, result) ==
  IF result = Num(0) THEN Lit("Pass")
  ELSE IF result = Lit("Unknown") THEN Lit("No execution result")
  ELSE getResultReason(run, "runtime")

\* lines 66, 76 and 90: the places of getRuntimeStatus that raise a TypeError
getRuntimeStatusThrows(run) ==
  \/ IsNullish(run)
  \/ LET section == Or(Prop(run, "runtime"), Or(Prop(run, "execution"), Obj(EmptySection)))
     IN  \/ (ReachesIn(section) /\ InThrows(section))
         \/ /\ runtimeResult(section) \notin {Num(0), Lit("Unknown")}
            /\ getResultReasonThrows(run, "runtime")

getRuntimeStatus(run) ==
  LET section == Or(Prop(run, "runtime"), Or(Prop(run, "execution"), Obj(EmptySection)))
      result == runtimeResult(section)
  IN  [result |-> result,
       reason |-> runtimeReason(run, result),
       stderr |-> Or(Field(section, "errors"), Or(Field(section, "stderr"), EmptyStr)),
       output |-> Or(Field(section, "output"), EmptyStr)]

(***************************************************************************)
(* Documents.  `data.runs` is an object whose keys are test names, kept in *)
(* insertion order: a sequence of entries [name, value] with distinct      *)
(* names.  A test name is one line; the value is a JavaScript array of run *)
(* records.                                                                *)
(***************************************************************************)
Arr(seq) == [t |-> "array", a |-> seq]
Run(c, r, e) == [t |-> "object", compilation |-> c, runtime |-> r, execution |-> e]

\* Object.keys(runs)
Keys(runs) == [i \in 1..Len(runs) |-> runs[i].name]

\* runs[testName]
Lookup(runs, testName) ==
  LET hits == {i \in 1..Len(runs) : runs[i].name = testName}
  IN  IF hits = {} THEN Undef ELSE runs[CHOOSE i \in hits : TRUE].value

\* Array.isArray(x)
IsArray(x) == x.t = "array"

\* array.find(pred), given the indexes of the elements that satisfy pred: the
\* first such element, or undefined
FirstOf(array, hits) ==
  IF hits = {} THEN Undef
  ELSE array[CHOOSE i \in hits : \A j \in hits : i <= j]

\* testName.split('.').pop()?.toLowerCase()
RECURSIVE LastSegment(_)
LastSegment(line) ==
  IF \E i \in 1..Len(line) : line[i] = "."
    THEN LastSegment(Tail(line))
    ELSE line

ExtOf(testName) == LowerLine(LastSegment(testName))

\* the language of an extension, or "none"
LangOfExt(ext) ==
  IF ext = <<"c">> THEN "C"
  ELSE IF ext = <<"cpp">> THEN "CPP"
  ELSE IF ext = <<"f90">> THEN "F90"
  ELSE "none"

(***************************************************************************)
(* sortTestNames                                                           *)
(***************************************************************************)
\* code-unit order of the chunks that occur in base names
ChunkRank(c) ==
  CASE c = "." -> 46
    [] c = "a" -> 97
    [] c = "b" -> 98
    [] c = "c" -> 99
    [] OTHER -> 120

RECURSIVE StrLess(_, _)
StrLess(x, y) ==
  IF y = <<>> THEN FALSE
  ELSE IF x = <<>> THEN TRUE
  ELSE IF ChunkRank(Head(x)) # ChunkRank(Head(y)) THEN ChunkRank(Head(x)) < ChunkRank(Head(y))
  ELSE StrLess(Tail(x), Tail(y))

\* name.toLowerCase().split(/\.(?=[^.]+$)/): the split at the last dot, when
\* something follows it
LastDot(line) ==
  LET dots == {i \in 1..Len(line) : line[i] = "."}
  IN  IF dots = {} THEN 0 ELSE CHOOSE i \in dots : \A j \in dots : j <= i

SplitBase(name) ==
  LET l == LowerLine(name)
      d == LastDot(l)
  IN  IF d = 0 \/ d = Len(l) THEN l ELSE SubSeq(l, 1, d - 1)

SplitExt(name) ==
  LET l == LowerLine(name)
      d == LastDot(l)
  IN  IF d = 0 \/ d = Len(l) THEN Undef ELSE Str(<<SubSeq(l, d + 1, Len(l))>>)

\* langOrder[ext] ?? 3
LangOrder(ext) ==
  IF ext = Lit("c") THEN 0
  ELSE IF ext = Lit("cpp") THEN 1
  ELSE IF ext = Lit("f90") THEN 2
  ELSE 3

\* the comparator handed to Array.prototype.sort
CompareNames(a, b) ==
  IF StrLess(SplitBase(a), SplitBase(b)) THEN -1
  ELSE IF StrLess(SplitBase(b), SplitBase(a)) THEN 1
  ELSE LangOrder(SplitExt(a)) - LangOrder(SplitExt(b))

\* Array.prototype.sort is stable: insert each name after the last one that
\* does not compare greater
RECURSIVE InsertName(_, _)
InsertName(sorted, n) ==
  IF sorted = <<>> THEN <<n>>
  ELSE IF CompareNames(sorted[Len(sorted)], n) <= 0 THEN Append(sorted, n)
  ELSE Append(InsertName(SubSeq(sorted, 1, Len(sorted) - 1), n), sorted[Len(sorted)])

RECURSIVE SortFrom(_, _)
SortFrom(sorted, rest) ==
  IF rest = <<>> THEN sorted ELSE SortFrom(InsertName(sorted, Head(rest)), Tail(rest))

\* sortTestNames that leaves the names as Object.keys gave them
sortTestNames_keyOrder(testNames) == testNames

sortTestNames(testNames) == SortFrom(<<>>, testNames)

(***************************************************************************)
(* parseJSONResultsHelper (HomePage)                                       *)
(***************************************************************************)
Langs == {"C", "CPP", "F90"}
Modes == {"compiler", "runtime"}

ZeroCounts == [total |-> 0, pass |-> 0, fail |-> 0]
EmptySummary == [C |-> ZeroCounts, CPP |-> ZeroCounts, F90 |-> ZeroCounts, failures |-> <<>>]

\* the predicate of runArray.find for firstCompilerFail (line 53)
IsCompilerFail(run) == getCompilerStatus(run).result # Num(0)

\* the predicate of runArray.find for firstRuntimeFail (lines 54-57)
IsRuntimeFail(run) ==
  LET result == getRuntimeStatus(run).result
  IN  IF IsNum(result) THEN result.v # 0 ELSE LowerLines(result.s) # << <<"pass">> >>

\* line 53: find calls getCompilerStatus on the runs up to the first failing
\* one; a call that raises an error ends the search with that error
CompilerFindThrows(runArray) ==
  \E i \in 1..Len(runArray) :
    /\ \A j \in 1..(i - 1) :
         ~getCompilerStatusThrows(runArray[j]) /\ ~IsCompilerFail(runArray[j])
    /\ getCompilerStatusThrows(runArray[i])

\* lines 54-57: the same for getRuntimeStatus
RuntimeFindThrows(runArray) ==
  \E i \in 1..Len(runArray) :
    /\ \A j \in 1..(i - 1) :
         ~getRuntimeStatusThrows(runArray[j]) /\ ~IsRuntimeFail(runArray[j])
    /\ getRuntimeStatusThrows(runArray[i])

\* CountTest without the `continue` of line 68: in runtime mode a test whose
\* compilation failed is counted as a failure
CountTest_noShortCircuit(summaryCounts, testName, lang, runArray, mode) ==
  LET firstCompilerFail == FirstOf(runArray, {i \in 1..Len(runArray) : IsCompilerFail(runArray[i])})
      firstRuntimeFail == FirstOf(runArray, {i \in 1..Len(runArray) : IsRuntimeFail(runArray[i])})
  IN  IF mode = "compiler" \/ Truthy(firstCompilerFail)
        THEN IF ~Truthy(firstCompilerFail)
               THEN [summaryCounts EXCEPT ![lang].pass = @ + 1]
               ELSE [summaryCounts EXCEPT
                       ![lang].fail = @ + 1,
                       !.failures = Append(@, [name |-> testName,
                          reason |-> Or(getCompilerStatus(firstCompilerFail).reason, Lit("Unknown"))])]
        ELSE IF ~Truthy(firstRuntimeFail)
               THEN [summaryCounts EXCEPT ![lang].pass = @ + 1]
               ELSE [summaryCounts EXCEPT
                       ![lang].fail = @ + 1,
                       !.failures = Append(@, [name |-> testName,
                          reason |-> Or(getRuntimeStatus(firstRuntimeFail).reason, Lit("Unknown"))])]

\* lines 59-76: the counting of one test of language lang
CountTest(summaryCounts, testName, lang, runArray, mode) ==
  LET firstCompilerFail == FirstOf(runArray, {i \in 1..Len(runArray) : IsCompilerFail(runArray[i])})
      firstRuntimeFail == FirstOf(runArray, {i \in 1..Len(runArray) : IsRuntimeFail(runArray[i])})
  IN  IF mode = "compiler"
        THEN IF ~Truthy(firstCompilerFail)
               THEN [summaryCounts EXCEPT ![lang].pass = @ + 1]
               ELSE [summaryCounts EXCEPT
                       ![lang].fail = @ + 1,
                       !.failures = Append(@, [name |-> testName,
                          reason |-> Or(getCompilerStatus(firstCompilerFail).reason, Lit("Unknown"))])]
        ELSE IF Truthy(firstCompilerFail) THEN summaryCounts
        ELSE IF ~Truthy(firstRuntimeFail)
               THEN [summaryCounts EXCEPT ![lang].pass = @ + 1]
               ELSE [summaryCounts EXCEPT
                       ![lang].fail = @ + 1,
                       !.failures = Append(@, [name |-> testName,
                          reason |-> Or(getRuntimeStatus(firstRuntimeFail).reason, Lit("Unknown"))])]

\* lines 41-76: the body of the loop over the sorted names
SummaryStep(summaryCounts, runs, testName, mode) ==
  LET runArray == Lookup(runs, testName)
      lang == LangOfExt(ExtOf(testName))
  IN  IF ~IsArray(runArray) \/ Len(runArray.a) = 0 THEN summaryCounts
      ELSE IF lang = "none" THEN summaryCounts
      ELSE CountTest([summaryCounts EXCEPT ![lang].total = @ + 1],
                     testName, lang, runArray.a, mode)

RECURSIVE SummaryLoop(_, _, _, _)
SummaryLoop(summaryCounts, runs, names, mode) ==
  IF names = <<>> THEN summaryCounts
  ELSE SummaryLoop(SummaryStep(summaryCounts, runs, Head(names), mode), runs, Tail(names), mode)

\* lines 40-57: an error raised while a test is counted leaves the loop and
\* the function, before setSummary
parseJSONResultsHelperThrows(data) ==
  \E i \in 1..Len(data.runs) :
    LET runArray == data.runs[i].value
    IN  /\ IsArray(runArray)
        /\ Len(runArray.a) > 0
        /\ LangOfExt(ExtOf(data.runs[i].name)) # "none"
        /\ (CompilerFindThrows(runArray.a) \/ RuntimeFindThrows(runArray.a))

\* parseJSONResultsHelper that lists the first failure only
parseJSONResultsHelper_firstFailure(data, mode) ==
  LET counts == SummaryLoop(EmptySummary, data.runs, sortTestNames(Keys(data.runs)), mode)
  IN  [counts EXCEPT !.failures = IF @ = <<>> THEN @ ELSE <<Head(@)>>]

\* the Summary handed to setSummary
parseJSONResultsHelper(data, mode) ==
  SummaryLoop(EmptySummary, data.runs, sortTestNames(Keys(data.runs)), mode)

(***************************************************************************)
(* parseJSONResultsHelper of App.tsx: one representative per base name     *)
(***************************************************************************)
\* fullName.match(/^(.*)\.([^.]+)$/): a last dot with something after it
AppMatches(fullName) == LastDot(fullName) \notin {0, Len(fullName)}
AppBase(fullName) == SubSeq(fullName, 1, LastDot(fullName) - 1)
AppExt(fullName) == LowerLine(SubSeq(fullName, LastDot(fullName) + 1, Len(fullName)))

\* lines 277-283: groupedTests after one more name; the groups stand in the
\* order their base names came in, a later name of the same base and
\* extension takes the slot of the earlier one
AppGroupAdd(groupedTests, fullName) ==
  IF ~AppMatches(fullName) THEN groupedTests
  ELSE LET hits == {i \in 1..Len(groupedTests) : groupedTests[i].base = AppBase(fullName)}
       IN  IF hits = {}
             THEN Append(groupedTests,
                         [base |-> AppBase(fullName), group |-> (AppExt(fullName) :> fullName)])
             ELSE [i \in 1..Len(groupedTests) |->
                     IF i \in hits
                       THEN [groupedTests[i] EXCEPT !.group = (AppExt(fullName) :> fullName) @@ @]
                       ELSE groupedTests[i]]

RECURSIVE AppGroups(_, _)
AppGroups(groupedTests, names) ==
  IF names = <<>> THEN groupedTests
  ELSE AppGroups(AppGroupAdd(groupedTests, Head(names)), Tail(names))

\* AppRepresentative with the priority c > cpp > f90
AppRepresentative_cFirst(group) ==
  IF <<"c">> \in DOMAIN group THEN <<"c">>
  ELSE IF <<"cpp">> \in DOMAIN group THEN <<"cpp">>
  ELSE IF <<"f90">> \in DOMAIN group THEN <<"f90">>
  ELSE <<>>

\* line 289: the extension of the representative, <<>> for null
AppRepresentative(group) ==
  IF <<"f90">> \in DOMAIN group THEN <<"f90">>
  ELSE IF <<"cpp">> \in DOMAIN group THEN <<"cpp">>
  ELSE IF <<"c">> \in DOMAIN group THEN <<"c">>
  ELSE <<>>

\* runs[testName]?.[0] of a run array
AppTestEntry(runs, testName) ==
  LET runArray == Lookup(runs, testName)
  IN  IF IsArray(runArray) /\ Len(runArray.a) > 0 THEN runArray.a[1] ELSE Undef

\* lines 285-318: the body of the loop over the groups
AppSummaryStep(summaryCounts, runs, group, mode) ==
  LET ext == AppRepresentative(group)
      testName == group[ext]
      lang == LangOfExt(ext)
      testEntry == AppTestEntry(runs, testName)
  IN  IF ext = <<>> THEN summaryCounts
      ELSE IF ~Truthy(testEntry) THEN summaryCounts
      ELSE IF mode = "compiler"
        THEN IF getCompilerStatus(testEntry).result = Num(0)
               THEN [summaryCounts EXCEPT ![lang].total = @ + 1, ![lang].pass = @ + 1]
               ELSE [summaryCounts EXCEPT
                       ![lang].total = @ + 1,
                       ![lang].fail = @ + 1,
                       !.failures = Append(@, [name |-> testName,
                                               reason |-> getCompilerStatus(testEntry).reason])]
      ELSE IF getCompilerStatus(testEntry).result # Num(0) THEN summaryCounts
      ELSE IF getRuntimeStatus(testEntry).result = Num(0)
             THEN [summaryCounts EXCEPT ![lang].total = @ + 1, ![lang].pass = @ + 1]
             ELSE [summaryCounts EXCEPT
                     ![lang].total = @ + 1,
                     ![lang].fail = @ + 1,
                     !.failures = Append(@, [name |-> testName,
                                             reason |-> getRuntimeStatus(testEntry).reason])]

RECURSIVE AppSummaryLoop(_, _, _, _)
AppSummaryLoop(summaryCounts, runs, groupedTests, mode) ==
  IF groupedTests = <<>> THEN summaryCounts
  ELSE AppSummaryLoop(AppSummaryStep(summaryCounts, runs, Head(groupedTests).group, mode),
                      runs, Tail(groupedTests), mode)

\* lines 298-310: a status function raises an error on the first run of a
\* representative
AppParseThrows(data) ==
  LET groupedTests == AppGroups(<<>>, Keys(data.runs))
  IN  \E i \in 1..Len(groupedTests) :
        LET ext == AppRepresentative(groupedTests[i].group)
            testEntry == AppTestEntry(data.runs, groupedTests[i].group[ext])
        IN  /\ ext # <<>>
            /\ Truthy(testEntry)
            /\ (getCompilerStatusThrows(testEntry) \/ getRuntimeStatusThrows(testEntry))

\* the Summary handed to setSummary by the helper of App.tsx
AppParse(data, mode) ==
  AppSummaryLoop(EmptySummary, data.runs, AppGroups(<<>>, Keys(data.runs)), mode)

\* HomePage render, lines 259-270: the failures listed under a language
FailuresShown(shown, lang) ==
  SelectSeq(shown.failures,
            LAMBDA f :
              LET ext == LastSegment(f.name)
              IN  \/ lang = "C" /\ ext = <<"c">>
                  \/ lang = "CPP" /\ ext = <<"cpp">>
                  \/ lang = "F90" /\ LowerLine(ext) = <<"f90">>)

(***************************************************************************)
(* generateComparisonGraph: the counting done by one reader's onload       *)
(***************************************************************************)
\* GraphIsRuntimeFail that lets the 'Unknown' sentinel through, as the
\* runtimeFails filter of DetailsPage does
GraphIsRuntimeFail_unknownPasses(rStatus) ==
  IF IsNum(rStatus.result) THEN rStatus.result.v # 0
  ELSE IF IsStr(rStatus.result)
    THEN LowerLines(rStatus.result.s) \notin {<< <<"pass">> >>, << <<"unknown">> >>}
  ELSE FALSE

\* lines 174-178
GraphIsRuntimeFail(rStatus) ==
  IF IsNum(rStatus.result) THEN rStatus.result.v # 0
  ELSE IF IsStr(rStatus.result) THEN LowerLines(rStatus.result.s) # << <<"pass">> >>
  ELSE FALSE

\* lines 165-181: the fold of the two flags over the runs of a test
RECURSIVE GraphFlags(_, _)
GraphFlags(flags, runArray) ==
  IF runArray = <<>> THEN flags
  ELSE LET cStatus == getCompilerStatus(Head(runArray))
           rStatus == getRuntimeStatus(Head(runArray))
       IN  GraphFlags([compilerPass |-> flags.compilerPass /\ cStatus.result = Num(0),
                       runtimePass |-> flags.runtimePass /\ ~GraphIsRuntimeFail(rStatus)],
                      Tail(runArray))

\* lines 155-184
GraphStep(counts, runs, testName, graphMode) ==
  LET runArray == Lookup(runs, testName)
      lang == LangOfExt(ExtOf(testName))
  IN  IF ~IsArray(runArray) \/ Len(runArray.a) = 0 THEN counts
      ELSE IF lang = "none" THEN counts
      ELSE LET flags == GraphFlags([compilerPass |-> TRUE, runtimePass |-> TRUE], runArray.a)
           IN  IF graphMode = "compiler" /\ flags.compilerPass
                 THEN [counts EXCEPT ![lang] = @ + 1]
               ELSE IF graphMode = "runtime" /\ flags.compilerPass /\ flags.runtimePass
                 THEN [counts EXCEPT ![lang] = @ + 1]
               ELSE counts

RECURSIVE GraphLoop(_, _, _, _)
GraphLoop(counts, runs, names, graphMode) ==
  IF names = <<>> THEN counts
  ELSE GraphLoop(GraphStep(counts, runs, Head(names), graphMode), runs, Tail(names), graphMode)

\* lines 168-170: an error raised by a status function leaves the onload
GraphCountsThrows(data) ==
  \E i \in 1..Len(data.runs) :
    LET runArray == data.runs[i].value
    IN  /\ IsArray(runArray)
        /\ LangOfExt(ExtOf(data.runs[i].name)) # "none"
        /\ \E k \in 1..Len(runArray.a) :
             getCompilerStatusThrows(runArray.a[k]) \/ getRuntimeStatusThrows(runArray.a[k])

\* lines 149-185: the counts of one document
GraphCounts(data, graphMode) ==
  GraphLoop([C |-> 0, CPP |-> 0, F90 |-> 0], data.runs, Keys(data.runs), graphMode)

(***************************************************************************)
(* DetailsPage.tsx: the classification effect                              *)
(***************************************************************************)
\* x ||= y
OrAssign(x, y) == IF Truthy(x) THEN x ELSE y

\* lines 173-177
DetailsIsRuntimeFail(rStatus) ==
  IF IsNum(rStatus.result) THEN rStatus.result.v # 0
  ELSE IF IsStr(rStatus.result) THEN LowerLines(rStatus.result.s) # << <<"pass">> >>
  ELSE FALSE

\* FoldCompiler that takes the status of every run, passing or not
FoldCompiler_lastRun(final, cStatus) ==
  [result |-> cStatus.result,
   reason |-> cStatus.reason,
   stderr |-> OrAssign(final.stderr, cStatus.stderr),
   stdout |-> OrAssign(final.stdout, cStatus.stdout)]

\* lines 166-171
FoldCompiler(final, cStatus) ==
  IF cStatus.result # Num(0)
    THEN [result |-> cStatus.result,
          reason |-> cStatus.reason,
          stderr |-> OrAssign(final.stderr, cStatus.stderr),
          stdout |-> OrAssign(final.stdout, cStatus.stdout)]
    ELSE final

\* lines 179-184
FoldRuntime(final, rStatus) ==
  IF DetailsIsRuntimeFail(rStatus)
    THEN [result |-> rStatus.result,
          reason |-> rStatus.reason,
          stderr |-> OrAssign(final.stderr, rStatus.stderr),
          output |-> OrAssign(final.output, rStatus.output)]
    ELSE final

\* lines 162-185: the loop over the runs of one test
RECURSIVE FoldRuns(_, _)
FoldRuns(finals, runArray) ==
  IF runArray = <<>> THEN finals
  ELSE FoldRuns([c |-> FoldCompiler(finals.c, getCompilerStatus(Head(runArray))),
                 r |-> FoldRuntime(finals.r, getRuntimeStatus(Head(runArray)))],
                Tail(runArray))

\* lines 152-198: the Verdict of one test
Verdict(testName, runArray) ==
  LET lang == LangOfExt(ExtOf(testName))
      finals == FoldRuns(
        [c |-> [result |-> Num(0), reason |-> Lit("Pass"), stderr |-> EmptyStr, stdout |-> EmptyStr],
         r |-> [result |-> Num(0), reason |-> Lit("Pass"), stderr |-> EmptyStr, output |-> EmptyStr]],
        runArray)
  IN  [name |-> testName,
       language |-> IF lang = "none" THEN "Other" ELSE lang,
       compilerResult |-> finals.c.result,
       compilerReason |-> Or(finals.c.reason, Lit("Pass")),
       runtimeResult |-> finals.r.result,
       runtimeReason |-> Or(finals.r.reason, Lit("Pass")),
       compilerStderr |-> finals.c.stderr,
       compilerStdout |-> finals.c.stdout,
       runtimeStderr |-> finals.r.stderr,
       runtimeOutput |-> finals.r.output]

RECURSIVE ClassifyLoop(_, _, _)
ClassifyLoop(parsedFailures, runs, names) ==
  IF names = <<>> THEN parsedFailures
  ELSE LET runArray == Lookup(runs, Head(names))
       IN  ClassifyLoop(
             IF ~IsArray(runArray) \/ Len(runArray.a) = 0 THEN parsedFailures
             ELSE Append(parsedFailures, Verdict(Head(names), runArray.a)),
             runs, Tail(names))

\* lines 162-164: an error raised by a status function leaves the effect,
\* before setFailures
ClassifyDocumentThrows(data) ==
  \E i \in 1..Len(data.runs) :
    LET runArray == data.runs[i].value
    IN  /\ IsArray(runArray)
        /\ \E k \in 1..Len(runArray.a) :
             getCompilerStatusThrows(runArray.a[k]) \/ getRuntimeStatusThrows(runArray.a[k])

\* the Verdict sequence handed to setFailures
ClassifyDocument(data) ==
  ClassifyLoop(<<>>, data.runs, sortTestNames(Keys(data.runs)))

(***************************************************************************)
(* Inputs                                                                  *)
(***************************************************************************)
Sec(fields) == Obj(fields @@ EmptySection)
Text(lines) == Str(lines)

\* the runs that documents are built from
RunPass ==
  Run(Sec([result |-> Num(0)]), Sec([result |-> Num(0)]), Undef)
RunFail1 ==
  Run(Sec([result |-> Num(1), stderr |-> Text(<< <<"error:", " ", "A">> >>)]),
      Sec([result |-> Num(1), stderr |-> Text(<< <<"segmentation">> >>)]),
      Undef)
RunFail2 ==
  Run(Sec([return_code |-> Num(2),
           stderr |-> Text(<< <<"note">>, <<"fatal", " ", "B">> >>),
           stdout |-> Text(<< <<"out">> >>)]),
      Undef,
      Sec([result |-> Lit("2"), stderr |-> Text(<< <<"core dumped">> >>),
           output |-> Text(<< <<"log">> >>)]))
RunNoExec ==
  Run(Sec([success |-> Bool(TRUE), stderr |-> Text(<< <<"warning">> >>)]), Undef, Undef)

RunRuntimeFail ==
  Run(Sec([result |-> Lit("0")]),
      Sec([return_code |-> Num(3), stdout |-> Text(<< <<"step">>, <<"invalid", " ", "A">> >>)]),
      Undef)

\* a run whose runtime result is the label PASS
RunLabelPass ==
  Run(Sec([result |-> Num(0)]), Sec([result |-> Lit("PASS")]), Undef)

DocRuns == {RunPass, RunFail1, RunFail2, RunNoExec, RunRuntimeFail, RunLabelPass}

TestNames ==
  { <<"a", ".", "c">>, <<"a", ".", "cpp">>, <<"b", ".", "F90">>, <<"b", ".", "txt">> }

RECURSIVE SeqsUpTo(_, _)
SeqsUpTo(S, n) ==
  IF n = 0 THEN {<<>>}
  ELSE LET shorter == SeqsUpTo(S, n - 1)
       IN  shorter \cup {Append(q, x) : q \in {r \in shorter : Len(r) = n - 1}, x \in S}

\* every array of at most MaxRuns runs
RunArrays == {Arr(q) : q \in SeqsUpTo(DocRuns, MaxRuns)}

\* the names of documents of one test: those above, a name with two dots, a
\* name without a dot and a name with an upper-case extension
SingleNames ==
  TestNames \cup { <<"a", ".", "b", ".", "c">>, <<"cpp">>, <<"b", ".", "CPP">> }

\* the documents of one test: { runs: { name: [run, ...] } }
TestDocs == {[runs |-> <<[name |-> n, value |-> v]>>] : n \in SingleNames, v \in RunArrays}

\* the run arrays that documents of several tests are built from
DocArrays ==
  {Arr(<<>>), Arr(<<RunPass>>), Arr(<<RunFail1>>), Arr(<<RunNoExec>>),
   Arr(<<RunPass, RunFail2>>), Arr(<<RunNoExec, RunRuntimeFail>>)}

Entries == {[name |-> n, value |-> v] : n \in TestNames, v \in DocArrays}

DistinctNames(runs) ==
  \A i, j \in 1..Len(runs) : i # j => runs[i].name # runs[j].name

\* the documents of at most MaxTests tests: { runs: { name: [run, ...], ... } }
Docs == {[runs |-> r] : r \in {q \in SeqsUpTo(Entries, MaxTests) : DistinctNames(q)}}

(***************************************************************************)
(* State                                                                   *)
(***************************************************************************)
VARIABLES
  arg,               \* the input of the function under evaluation
  op,                \* the function applied to arg, "none" before
  ret,               \* what the function returned
  page,              \* the route shown: "home" or "details"; "crashed" once unmounted
  summary,           \* HomePage state
  rawJsonText,
  comparisonFiles,
  comparisonData,
  mode,
  uploadedFileName,
  graphGenerated,
  graphMode,
  uploadInput,       \* the file held by the single-version file input
  uploadReaders,     \* FileReaders of handleFileUpload not yet loaded
  graphReaders,      \* calls of generateComparisonGraph with a reader not yet loaded
  detailsReaders,    \* FileReaders of the View Details button not yet loaded
  lastOnload,        \* the index of the comparison reader whose onload ran last
  failures           \* DetailsPage state

funVars == <<arg, op, ret>>
uploadVars == <<summary, rawJsonText, mode, uploadedFileName, uploadReaders>>
graphVars == <<comparisonFiles, comparisonData, graphGenerated, graphMode,
               graphReaders, lastOnload>>
homeVars == <<uploadVars, graphVars, uploadInput, detailsReaders>>
uiVars == <<page, homeVars, failures>>
vars == <<funVars, uiVars>>

\* HomePage as mounted: the useState initial values, no reader pending
HomeInit ==
  /\ summary = Null
  /\ rawJsonText = Null
  /\ comparisonFiles = <<>>
  /\ comparisonData = <<>>
  /\ mode = "compiler"
  /\ uploadedFileName = EmptyStr
  /\ graphGenerated = FALSE
  /\ graphMode = "compiler"
  /\ uploadInput = Undef
  /\ uploadReaders = <<>>
  /\ graphReaders = <<>>
  /\ detailsReaders = <<>>
  /\ lastOnload = Null

UIInit ==
  /\ page = "home"
  /\ HomeInit
  /\ failures = <<>>

(***************************************************************************)
(* The engine as functions of a document: a document and nothing else is   *)
(* drawn, then one of the three entry points is applied to it.             *)
(***************************************************************************)
InitEngine ==
  /\ arg \in Docs
  /\ op = "none"
  /\ ret = Null
  /\ UIInit

\* parseJSONResultsHelper(fileText, mode, setSummary, sortTestNames)
ApplyParse(m) ==
  /\ op = "none"
  /\ op' = "parseJSONResultsHelper"
  /\ ret' = IF parseJSONResultsHelperThrows(arg) THEN Threw
            ELSE [mode |-> m, summary |-> parseJSONResultsHelper(arg, m)]
  /\ UNCHANGED <<arg, uiVars>>

\* the DetailsPage effect on location.state.rawJson
ApplyClassify ==
  /\ op = "none"
  /\ op' = "DetailsPage"
  /\ ret' = IF ClassifyDocumentThrows(arg) THEN Threw
            ELSE [failures |-> ClassifyDocument(arg)]
  /\ UNCHANGED <<arg, uiVars>>

\* the onload of one reader of generateComparisonGraph
ApplyGraphCounts(m) ==
  /\ op = "none"
  /\ op' = "generateComparisonGraph"
  /\ ret' = IF GraphCountsThrows(arg) THEN Threw
            ELSE [mode |-> m, counts |-> GraphCounts(arg, m)]
  /\ UNCHANGED <<arg, uiVars>>

NextEngine ==
  \/ \E m \in Modes : ApplyParse(m)
  \/ ApplyClassify
  \/ \E m \in Modes : ApplyGraphCounts(m)

SpecEngine == InitEngine /\ [][NextEngine]_vars

(***************************************************************************)
(* Repeated classification of one document: each call of                   *)
(* parseJSONResultsHelper parses the text anew and starts from the counts  *)
(* of lines 31-36, each run of the DetailsPage effect from the empty       *)
(* parsedFailures of line 145; op is the sequence of calls made so far,    *)
(* ret the last result of each kind of call.                               *)
(***************************************************************************)
MaxCalls == 3

Kinds == {"compiler", "runtime", "details"}

\* the documents of two tests
PairDocs == {d \in Docs : Len(d.runs) = 2}

InitAgain ==
  /\ arg \in PairDocs
  /\ op = <<>>
  /\ ret = [kind \in Kinds |-> Null]
  /\ UIInit

\* Call with summaryCounts kept across the calls instead of created by each
Call_sharedCounts(kind) ==
  /\ Len(op) < MaxCalls
  /\ op' = Append(op, kind)
  /\ ret' = [ret EXCEPT ![kind] =
              IF kind = "details"
                THEN [failures |-> ClassifyDocument(arg)]
                ELSE [mode |-> kind,
                      summary |-> SummaryLoop(IF @ = Null THEN EmptySummary ELSE @.summary,
                                              arg.runs, sortTestNames(Keys(arg.runs)), kind)]]
  /\ UNCHANGED <<arg, uiVars>>

\* one more call: parseJSONResultsHelper under the mode `kind`, or the
\* DetailsPage effect
Call(kind) ==
  /\ Len(op) < MaxCalls
  /\ op' = Append(op, kind)
  /\ ret' = [ret EXCEPT ![kind] =
              IF kind = "details"
                THEN [failures |-> ClassifyDocument(arg)]
                ELSE [mode |-> kind, summary |-> parseJSONResultsHelper(arg, kind)]]
  /\ UNCHANGED <<arg, uiVars>>

NextAgain == \E kind \in Kinds : Call(kind)

SpecAgain == InitAgain /\ [][NextAgain]_vars

(***************************************************************************)
(* The helper of App.tsx as a function of a document                       *)
(***************************************************************************)
\* names of one base in the three languages, and one of another base
AppNames ==
  { <<"a", ".", "c">>, <<"a", ".", "cpp">>, <<"a", ".", "F90">>, <<"b", ".", "txt">> }

AppEntries == {[name |-> n, value |-> v] : n \in AppNames, v \in DocArrays}

AppDocs == {[runs |-> r] : r \in {q \in SeqsUpTo(AppEntries, MaxTests) : DistinctNames(q)}}

InitApp ==
  /\ arg \in AppDocs
  /\ op = "none"
  /\ ret = Null
  /\ UIInit

ApplyAppParse(m) ==
  /\ op = "none"
  /\ op' = "App.parseJSONResultsHelper"
  /\ ret' = IF AppParseThrows(arg) THEN Threw
            ELSE [mode |-> m, summary |-> AppParse(arg, m)]
  /\ UNCHANGED <<arg, uiVars>>

NextApp == \E m \in Modes : ApplyAppParse(m)

SpecApp == InitApp /\ [][NextApp]_vars

\* the same entry points on the documents of one test
InitTest ==
  /\ arg \in TestDocs
  /\ op = "none"
  /\ ret = Null
  /\ UIInit

SpecTest == InitTest /\ [][NextEngine]_vars

\* the same entry points on documents whose `runs` mapping has entries of
\* other shapes: a value that is not an array, an empty array, a run that is
\* null or a primitive, a section that is not an object, a stderr that is
\* not text
OddEntryValues ==
  {Lit("text"),
   Arr(<<>>),
   Arr(<<Null>>),
   Arr(<<Num(0)>>),
   Arr(<<Run(Lit("text"), Undef, Undef)>>),
   Arr(<<Run(Sec([result |-> Num(1), stderr |-> Arr(<<Lit("error:")>>)]), Undef, Undef)>>),
   Arr(<<RunPass>>),
   Arr(<<RunFail1>>)}

OddNames == { <<"a", ".", "c">>, <<"a", ".", "cpp">>, <<"b", ".", "txt">> }

OddEntries == {[name |-> n, value |-> v] : n \in OddNames, v \in OddEntryValues}

OddDocs == {[runs |-> r] : r \in {q \in SeqsUpTo(OddEntries, MaxTests) : DistinctNames(q)}}

InitEntries ==
  /\ arg \in OddDocs
  /\ op = "none"
  /\ ret = Null
  /\ UIInit

SpecEntries == InitEntries /\ [][NextEngine]_vars

(***************************************************************************)
(* The status extractor as functions of one run record.                    *)
(***************************************************************************)
ResultValues ==
  {Undef, Null, Num(0), Num(1), Num(-1), Lit("0"), Lit("2"), EmptyStr,
   Lit("pass"), Lit("Runtime Failure")}
ReturnCodeValues == {Undef, Num(0), Num(3)}
SuccessValues == {Undef, Bool(TRUE), Bool(FALSE), Null}
ErrorsValues == {Undef, Text(<< <<"undefined", " ", "A">> >>)}
StderrValues ==
  {Undef, Text(<< <<" ">>, <<"note">>, <<" ", "Error:", " ", "B">> >>), Text(<< <<" ">> >>),
   Text(<< <<"note">> >>)}
\* the stdout and output of a section, as a pair
OutValues ==
  {<<Undef, Undef>>,
   <<Text(<< <<"out">>, <<>>, <<"more">>, <<"tail">> >>), Undef>>,
   <<Undef, Text(<< <<"log">>, <<"missing">> >>)>>}

Sections ==
  {Obj([result |-> r, return_code |-> rc, success |-> su,
        errors |-> er, stderr |-> se, stdout |-> so[1], output |-> so[2]]) :
     r \in ResultValues, rc \in ReturnCodeValues, su \in SuccessValues,
     er \in ErrorsValues, se \in StderrValues, so \in OutValues}

\* sections stored under `execution` next to a `runtime` section
OtherSections == {Undef, Sec([result |-> Num(1), stderr |-> Text(<< <<"fatal">> >>)])}

StatusRuns ==
  {Run(c, Undef, Undef) : c \in Sections \cup {Undef, Null}}
  \cup {Run(Undef, r, e) : r \in Sections \cup {Undef, Null}, e \in OtherSections}
  \cup {Run(Undef, Undef, e) : e \in Sections}

InitStatus ==
  /\ arg \in StatusRuns
  /\ op = "none"
  /\ ret = Null
  /\ UIInit

ApplyCompilerStatus ==
  /\ op = "none"
  /\ op' = "getCompilerStatus"
  /\ ret' = IF getCompilerStatusThrows(arg) THEN Threw ELSE getCompilerStatus(arg)
  /\ UNCHANGED <<arg, uiVars>>

ApplyRuntimeStatus ==
  /\ op = "none"
  /\ op' = "getRuntimeStatus"
  /\ ret' = IF getRuntimeStatusThrows(arg) THEN Threw ELSE getRuntimeStatus(arg)
  /\ UNCHANGED <<arg, uiVars>>

ApplyResultReason(type) ==
  /\ op = "none"
  /\ op' = "getResultReason"
  /\ ret' = IF getResultReasonThrows(arg, type) THEN Threw
            ELSE [type |-> type, reason |-> getResultReason(arg, type)]
  /\ UNCHANGED <<arg, uiVars>>

NextStatus ==
  \/ ApplyCompilerStatus
  \/ ApplyRuntimeStatus
  \/ \E type \in Modes : ApplyResultReason(type)

SpecStatus == InitStatus /\ [][NextStatus]_vars

(***************************************************************************)
(* The same functions on run records of other shapes: a text field that    *)
(* holds a number, a boolean, an array or an object; a section or a run    *)
(* that is not an object.                                                  *)
(***************************************************************************)
OddValues ==
  {Num(5), Num(0), Bool(FALSE), Arr(<<>>), Arr(<<Lit("error:")>>), Obj(EmptySection)}

TextFields == {"errors", "stderr", "stdout", "output"}

OddSections ==
  {Obj((field :> v) @@ [result |-> r] @@ EmptySection) :
     field \in TextFields, v \in OddValues, r \in {Undef, Num(0), Num(1)}}
  \cup {Sec([result |-> Num(1), errors |-> Text(<< <<"undefined", " ", "A">> >>), stderr |-> v]) :
          v \in OddValues}
  \cup {Null, EmptyStr, Num(0), Lit("text"), Num(5), Bool(TRUE), Arr(<<>>)}

OddRuns ==
  {Run(c, Undef, Undef) : c \in OddSections}
  \cup {Run(Undef, r, Undef) : r \in OddSections}
  \cup {Run(Undef, Undef, e) : e \in OddSections}
  \cup {Null, Num(0), Num(5), Lit("text"), Bool(TRUE), Arr(<<>>)}

InitShapes ==
  /\ arg \in OddRuns
  /\ op = "none"
  /\ ret = Null
  /\ UIInit

SpecShapes == InitShapes /\ [][NextStatus]_vars

(***************************************************************************)
(* The pages.  The user picks files out of a pool; readAsText hands the    *)
(* text of a file to the reader's onload some time after the call.         *)
(***************************************************************************)
\* array.splice(i - 1, 1)
RemoveAt(seq, i) == SubSeq(seq, 1, i - 1) \o SubSeq(seq, i + 1, Len(seq))

File(i) == [t |-> "file", id |-> i]
\* wrapper: the text starts with `var jsonResults = `; semicolon: a `;`
\* follows the JSON text
Txt(data) == [t |-> "text", wrapper |-> FALSE, json |-> data, semicolon |-> FALSE]

\* the text `var jsonResults = <json>` with or without the closing `;`
Wrapped(data, semicolon) == [t |-> "text", wrapper |-> TRUE, json |-> data, semicolon |-> semicolon]

\* fileText.trim().replace(/^var jsonResults\s*=\s*/, ''): the prefix goes,
\* what follows the JSON text stays
Sanitize(fileText) == [fileText EXCEPT !.wrapper = FALSE]

FilePool ==
  << [runs |-> << [name |-> <<"a", ".", "c">>, value |-> Arr(<<RunPass>>)],
                  [name |-> <<"a", ".", "cpp">>, value |-> Arr(<<RunFail1>>)],
                  [name |-> <<"b", ".", "F90">>, value |-> Arr(<<RunNoExec>>)] >>],
     [runs |-> << [name |-> <<"a", ".", "cpp">>, value |-> Arr(<<RunPass>>)],
                  [name |-> <<"a", ".", "c">>, value |-> Arr(<<RunPass, RunFail2>>)] >>] >>

FileNames ==
  << <<"v1", ".", "json">>, <<"v2", ".", "json">>, <<"notes", ".", "txt">>, <<"other", ".", "json">> >>

Files == {File(i) : i \in 1..Len(FilePool)}

\* a text that JSON.parse rejects, and a JSON document without the `runs` key
Invalid == [t |-> "invalid"]
NoRunsDocument == [tests |-> <<>>]

\* the texts of the files: the documents of the pool, then the two files
\* that hold no results document
FileTexts == [i \in 1..Len(FilePool) |-> Txt(FilePool[i])] \o <<Txt(Invalid), Txt(NoRunsDocument)>>

\* the files of the single-version input
UploadFiles == {File(i) : i \in 1..Len(FileTexts)}

\* file.name
NameOf(file) == Str(<<FileNames[file.id]>>)

\* the text a FileReader reads from the file
readAsText(file) == FileTexts[file.id]

\* ParseFileText that takes a document without `runs` as one with no tests
ParseFileText_emptyRuns(fileText) ==
  IF Sanitize(fileText).json = Invalid \/ Sanitize(fileText).semicolon THEN Threw
  ELSE IF "runs" \notin DOMAIN fileText.json THEN [runs |-> <<>>]
  ELSE fileText.json

\* lines 27-29 and 38: JSON.parse raises a SyntaxError on a text that is not
\* JSON, as is a JSON text followed by `;`; without a `runs` key data.runs is
\* undefined and Object.keys raises a TypeError; otherwise the parsed document
ParseFileText(fileText) ==
  IF Sanitize(fileText).json = Invalid \/ Sanitize(fileText).semicolon THEN Threw
  ELSE IF "runs" \notin DOMAIN fileText.json THEN Threw
  ELSE fileText.json

\* parseJSONResultsHelper(fileText, ...) raises an error and does not reach
\* setSummary
HelperThrows(fileText) ==
  \/ ParseFileText(fileText) = Threw
  \/ parseJSONResultsHelperThrows(ParseFileText(fileText))

\* DetailsPage lines 130-164: the effect raises an error before setFailures
DetailsThrows(rawJson) ==
  \/ ParseFileText(rawJson) = Threw
  \/ ClassifyDocumentThrows(ParseFileText(rawJson))

(***************************************************************************)
(* The two entry points as functions of a text: a text is drawn, then      *)
(* parseJSONResultsHelper or the DetailsPage effect is applied to it.      *)
(***************************************************************************)
\* the texts of the documents of one test, bare and in the wrapper
TextDocs == {[runs |-> <<e>>] : e \in Entries}
Texts ==
  {Txt(d) : d \in TextDocs} \cup {Wrapped(d, semicolon) : d \in TextDocs, semicolon \in BOOLEAN}

InitText ==
  /\ arg \in Texts
  /\ op = "none"
  /\ ret = Null
  /\ UIInit

\* parseJSONResultsHelper(fileText, mode, setSummary, sortTestNames)
ApplyParseText(m) ==
  /\ op = "none"
  /\ op' = "parseJSONResultsHelper"
  /\ ret' = IF HelperThrows(arg) THEN Threw
            ELSE [mode |-> m, summary |-> parseJSONResultsHelper(ParseFileText(arg), m)]
  /\ UNCHANGED <<arg, uiVars>>

\* the DetailsPage effect on location.state.rawJson
ApplyClassifyText ==
  /\ op = "none"
  /\ op' = "DetailsPage"
  /\ ret' = IF DetailsThrows(arg) THEN Threw
            ELSE [failures |-> ClassifyDocument(ParseFileText(arg))]
  /\ UNCHANGED <<arg, uiVars>>

NextText ==
  \/ \E m \in Modes : ApplyParseText(m)
  \/ ApplyClassifyText

SpecText == InitText /\ [][NextText]_vars

\* array[i] of a JavaScript array, 0-based
At(array, i) == IF i + 1 <= Len(array) THEN array[i + 1] ELSE Undef

\* array.filter(Boolean).length
CountTruthy(array) == Cardinality({i \in 1..Len(array) : Truthy(array[i])})

Toggle(m) == IF m = "compiler" THEN "runtime" ELSE "compiler"

\* line 187: summaries[index] = counts
StoreCounts_arrivalOrder(summaries, index, counts) ==
  IF ~Truthy(summaries[1]) THEN <<[t |-> "object", counts |-> counts], summaries[2]>>
  ELSE <<summaries[1], [t |-> "object", counts |-> counts]>>

StoreCounts(summaries, index, counts) ==
  [summaries EXCEPT ![index + 1] = [t |-> "object", counts |-> counts]]

\* lines 190-194
ChartData(summaries) ==
  [k \in 1..3 |->
     LET lang == <<"C", "CPP", "F90">>[k]
     IN  [language |-> lang,
          version1 |-> summaries[1].counts[lang],
          version2 |-> summaries[2].counts[lang]]]

\* lines 141-202: generateComparisonGraph as rendered with files and graph
\* mode gm: the calls with readers pending, after this call
generateComparisonGraph(readers, files, gm) ==
  IF Len(files) # 2 \/ ~Truthy(At(files, 0)) \/ ~Truthy(At(files, 1)) THEN readers
  ELSE Append(readers, [graphMode |-> gm,
                        files |-> files,
                        summaries |-> <<Undef, Undef>>,
                        pending |-> {0, 1}])

StartsReaders(files) == Len(files) = 2 /\ Truthy(At(files, 0)) /\ Truthy(At(files, 1))

\* lines 304 and 306: a file is chosen in one of the two comparison inputs
SelectComparisonFile(slot, file) ==
  /\ page = "home"
  /\ comparisonFiles' = IF slot = 0 THEN <<file, At(comparisonFiles, 1)>>
                        ELSE <<At(comparisonFiles, 0), file>>
  /\ UNCHANGED <<funVars, page, failures, uploadVars, uploadInput, detailsReaders,
                 comparisonData, graphGenerated, graphMode, graphReaders, lastOnload>>

\* lines 324-327: the Generate Graph button
ClickGenerateGraph ==
  /\ page = "home"
  /\ graphReaders' = generateComparisonGraph(graphReaders, comparisonFiles, graphMode)
  /\ graphGenerated' = TRUE
  /\ UNCHANGED <<funVars, page, failures, uploadVars, uploadInput, detailsReaders,
                 comparisonFiles, comparisonData, graphMode, lastOnload>>

\* line 344 and the effect of lines 100-105: the graph mode switch, shown
\* when both files are chosen
ToggleGraphMode ==
  /\ page = "home"
  /\ CountTruthy(comparisonFiles) = 2
  /\ graphMode' = Toggle(graphMode)
  /\ graphReaders' =
       IF graphGenerated /\ Len(comparisonFiles) = 2
         THEN generateComparisonGraph(graphReaders, comparisonFiles, Toggle(graphMode))
         ELSE graphReaders
  /\ UNCHANGED <<funVars, page, failures, uploadVars, uploadInput, detailsReaders,
                 comparisonFiles, comparisonData, graphGenerated, lastOnload>>

\* the two triggers of a generation, taken while fewer than cap calls of
\* generateComparisonGraph have a reader pending
GenerateWithin(cap) ==
  /\ StartsReaders(comparisonFiles) => Len(graphReaders) < cap
  /\ ClickGenerateGraph

ToggleGraphWithin(cap) ==
  /\ graphGenerated => Len(graphReaders) < cap
  /\ ToggleGraphMode

\* lines 147-197: the onload of the reader of file `index` of the g-th call
GraphReaderLoad(g, index) ==
  /\ page = "home"
  /\ g \in 1..Len(graphReaders)
  /\ index \in graphReaders[g].pending
  /\ LET call == graphReaders[g]
         rawText == readAsText(At(call.files, index))
         counts == GraphCounts(ParseFileText(rawText), call.graphMode)
         summaries == StoreCounts(call.summaries, index, counts)
         left == call.pending \ {index}
     IN  /\ comparisonData' =
              IF CountTruthy(summaries) = 2 THEN ChartData(summaries) ELSE comparisonData
         /\ graphReaders' =
              IF left = {} THEN RemoveAt(graphReaders, g)
              ELSE [graphReaders EXCEPT ![g] = [call EXCEPT !.summaries = summaries,
                                                             !.pending = left]]
         /\ lastOnload' = Num(index)
  /\ UNCHANGED <<funVars, page, failures, uploadVars, uploadInput, detailsReaders,
                 comparisonFiles, graphGenerated, graphMode>>

\* lines 133-138: the Clear Files button
clearFiles ==
  /\ page = "home"
  /\ comparisonFiles' = <<>>
  /\ comparisonData' = <<>>
  /\ uploadInput' = Undef
  /\ UNCHANGED <<funVars, page, failures, uploadVars, detailsReaders,
                 graphGenerated, graphMode, graphReaders, lastOnload>>

\* lines 123-131: a file is chosen in the single-version input
handleFileUpload(file) ==
  /\ page = "home"
  /\ uploadInput' = file
  /\ uploadedFileName' = NameOf(file)
  /\ uploadReaders' = Append(uploadReaders, [file |-> file, mode |-> mode])
  /\ UNCHANGED <<funVars, page, failures, graphVars, detailsReaders,
                 summary, rawJsonText, mode>>

\* a file is chosen while fewer than cap upload readers are pending
UploadWithin(cap, file) ==
  /\ Len(uploadReaders) < cap
  /\ handleFileUpload(file)

\* lines 118-121 and 128, then the effect of lines 94-98: the onload of the
\* k-th pending upload reader calls parseJSONResults as rendered when the file
\* was chosen; the effect runs again under the present mode when the text
\* differs from the one held.  When the helper raises an error the onload
\* ends after setRawJsonText, without setSummary; the effect then raises the
\* same error while React commits, and with no error boundary in the tree
\* React unmounts it: nothing the user does reaches the page any more
UploadReaderLoad(k) ==
  /\ page = "home"
  /\ k \in 1..Len(uploadReaders)
  /\ LET reader == uploadReaders[k]
         fileText == readAsText(reader.file)
     IN  /\ rawJsonText' = fileText
         /\ summary' = IF HelperThrows(fileText) THEN summary
                       ELSE IF fileText # rawJsonText
                         THEN parseJSONResultsHelper(ParseFileText(fileText), mode)
                         ELSE parseJSONResultsHelper(ParseFileText(fileText), reader.mode)
         /\ page' = IF HelperThrows(fileText) /\ fileText # rawJsonText THEN "crashed" ELSE page
  /\ uploadReaders' = RemoveAt(uploadReaders, k)
  /\ UNCHANGED <<funVars, failures, graphVars, detailsReaders,
                 uploadInput, uploadedFileName, mode>>

\* line 235 and the effect of lines 94-98: the mode switch, shown once a
\* Summary is displayed
ToggleMode ==
  /\ page = "home"
  /\ summary # Null
  /\ mode' = Toggle(mode)
  /\ summary' = IF Truthy(rawJsonText)
                  THEN parseJSONResultsHelper(ParseFileText(rawJsonText), Toggle(mode))
                  ELSE summary
  /\ UNCHANGED <<funVars, page, failures, graphVars, detailsReaders,
                 uploadInput, uploadedFileName, uploadReaders, rawJsonText>>

\* lines 279-289: the View Details button reads the file of the first file
\* input of the page
ClickViewDetails ==
  /\ page = "home"
  /\ summary # Null
  /\ Truthy(uploadInput)
  /\ Len(detailsReaders) < MaxReaders
  /\ detailsReaders' = Append(detailsReaders, uploadInput)
  /\ UNCHANGED <<funVars, page, failures, graphVars, uploadVars, uploadInput>>

\* lines 284-287, then DetailsPage.tsx lines 126-202: the onload navigates to
\* the details route; HomePage is unmounted, its readers no longer reach a
\* mounted component, and the DetailsPage effect classifies the text
DetailsReaderLoad(k) ==
  /\ page = "home"
  /\ k \in 1..Len(detailsReaders)
  /\ LET data == ParseFileText(readAsText(detailsReaders[k]))
         throws == data = Threw \/ ClassifyDocumentThrows(data)
     IN  /\ page' = IF throws THEN "crashed" ELSE "details"
         /\ failures' = IF throws THEN <<>> ELSE ClassifyDocument(data)
  /\ summary' = Null
  /\ rawJsonText' = Null
  /\ comparisonFiles' = <<>>
  /\ comparisonData' = <<>>
  /\ mode' = "compiler"
  /\ uploadedFileName' = EmptyStr
  /\ graphGenerated' = FALSE
  /\ graphMode' = "compiler"
  /\ uploadInput' = Undef
  /\ uploadReaders' = <<>>
  /\ graphReaders' = <<>>
  /\ detailsReaders' = <<>>
  /\ lastOnload' = Null
  /\ UNCHANGED funVars

\* DetailsPage.tsx line 301: back to a newly mounted HomePage
NavigateBack ==
  /\ page = "details"
  /\ page' = "home"
  /\ failures' = <<>>
  /\ UNCHANGED <<funVars, homeVars>>

Init ==
  /\ arg = Null
  /\ op = "none"
  /\ ret = Null
  /\ UIInit

(***************************************************************************)
(* The two panels of HomePage share no state but the file inputs that      *)
(* clearFiles empties, so each is explored on its own: the comparison      *)
(* panel, and the single-version panel with the details route.             *)
(***************************************************************************)
NextCompare ==
  \/ \E slot \in {0, 1}, file \in Files : SelectComparisonFile(slot, file)
  \/ GenerateWithin(MaxGenerations)
  \/ ToggleGraphWithin(MaxGenerations)
  \/ \E g \in 1..MaxGenerations, index \in {0, 1} : GraphReaderLoad(g, index)
  \/ clearFiles

SpecCompare == Init /\ [][NextCompare]_vars

(***************************************************************************)
(* Generations that overlap: both comparison files are chosen and stay     *)
(* chosen; the graph is generated and its mode switched while readers of   *)
(* earlier calls are pending, and the readers load in any order.           *)
(***************************************************************************)
MaxOverlap == 2

InitRace ==
  /\ arg = Null
  /\ op = "none"
  /\ ret = Null
  /\ page = "home"
  /\ failures = <<>>
  /\ summary = Null
  /\ rawJsonText = Null
  /\ comparisonFiles \in {<<file1, file2>> : file1 \in Files, file2 \in Files}
  /\ comparisonData = <<>>
  /\ mode = "compiler"
  /\ uploadedFileName = EmptyStr
  /\ graphGenerated = FALSE
  /\ graphMode = "compiler"
  /\ uploadInput = Undef
  /\ uploadReaders = <<>>
  /\ graphReaders = <<>>
  /\ detailsReaders = <<>>
  /\ lastOnload = Null

NextRace ==
  \/ GenerateWithin(MaxOverlap)
  \/ ToggleGraphWithin(MaxOverlap)
  \/ \E g \in 1..MaxOverlap, index \in {0, 1} : GraphReaderLoad(g, index)

SpecRace == InitRace /\ [][NextRace]_vars

NextSingle ==
  \/ \E file \in UploadFiles : UploadWithin(MaxReaders, file)
  \/ \E k \in 1..MaxReaders : UploadReaderLoad(k)
  \/ ToggleMode
  \/ ClickViewDetails
  \/ \E k \in 1..MaxReaders : DetailsReaderLoad(k)
  \/ NavigateBack
  \/ clearFiles

SpecSingle == Init /\ [][NextSingle]_vars

(***************************************************************************)
(* Uploads that overlap: results files are chosen one after the other      *)
(* while reads of earlier ones are pending, and the reads load in any      *)
(* order.                                                                  *)
(***************************************************************************)
MaxPending == 2

NextUploads ==
  \/ \E file \in Files : UploadWithin(MaxPending, file)
  \/ \E k \in 1..MaxPending : UploadReaderLoad(k)
  \/ ToggleMode

SpecUploads == Init /\ [][NextUploads]_vars

(***************************************************************************)
(* Properties                                                              *)
(***************************************************************************)
\* the entry is a non-empty array of runs under a name of a known language
Counted(entry) ==
  /\ IsArray(entry.value)
  /\ Len(entry.value.a) > 0
  /\ LangOfExt(ExtOf(entry.name)) # "none"

HasCompilerFailure(entry) ==
  \E k \in 1..Len(entry.value.a) : getCompilerStatus(entry.value.a[k]).result # Num(0)

\* a runtime status result that is failing: a non-zero number, or a string
\* other than 'pass'
FailingRuntimeResult(result) ==
  IF IsNum(result) THEN result.v # 0 ELSE LowerLines(result.s) # << <<"pass">> >>

HasRuntimeFailure(entry) ==
  \E k \in 1..Len(entry.value.a) : FailingRuntimeResult(getRuntimeStatus(entry.value.a[k]).result)

\* the Summary of the document without its i-th test
SummaryWithout(i, m) ==
  parseJSONResultsHelper([runs |-> RemoveAt(arg.runs, i)], m)

\* C1: in every Summary of parseJSONResultsHelper, in both modes, each
\* language has total = pass + fail.
C1_SumInvariant ==
  op = "parseJSONResultsHelper" =>
    \A L \in Langs :
      ret.summary[L].total = ret.summary[L].pass + ret.summary[L].fail

\* C2: in runtime mode a test with a run whose compiler status result is not
\* 0 adds nothing to the pass count, the fail count or the failures list:
\* the Summary has the pass and fail counts and the failures of the document
\* without that test.
C2_ShortCircuit ==
  (op = "parseJSONResultsHelper" /\ ret.mode = "runtime") =>
    \A i \in 1..Len(arg.runs) :
      (Counted(arg.runs[i]) /\ HasCompilerFailure(arg.runs[i])) =>
        /\ \A L \in Langs :
             /\ ret.summary[L].pass = SummaryWithout(i, "runtime")[L].pass
             /\ ret.summary[L].fail = SummaryWithout(i, "runtime")[L].fail
        /\ ret.summary.failures = SummaryWithout(i, "runtime").failures
        /\ \A j \in 1..Len(ret.summary.failures) :
             ret.summary.failures[j].name # arg.runs[i].name

\* a runtime-mode Summary of two tests, one that failed to compile and one
\* that is listed as a runtime failure
C2_Witness ==
  /\ op = "parseJSONResultsHelper"
  /\ ret.mode = "runtime"
  /\ Len(arg.runs) = 2
  /\ \E i \in 1..2 : Counted(arg.runs[i]) /\ HasCompilerFailure(arg.runs[i])
  /\ Len(ret.summary.failures) = 1

\* C3: a Verdict with compilerResult # 0 reports the runtime result as the
\* sentinel "Unknown".
C3_RuntimeNotEvaluated ==
  op = "DetailsPage" =>
    \A j \in 1..Len(ret.failures) :
      ret.failures[j].compilerResult # Num(0) =>
        ret.failures[j].runtimeResult = Lit("Unknown")

\* every run compiles with result 0 and has no runtime and no execution section
CompilesWithoutExecution(entry) ==
  \A k \in 1..Len(entry.value.a) :
    /\ getCompilerStatus(entry.value.a[k]).result = Num(0)
    /\ entry.value.a[k].runtime = Undef
    /\ entry.value.a[k].execution = Undef

\* C4: a test of a known language whose runs all compile with result 0 and
\* have no runtime or execution section counts as one pass in compiler mode
\* and as neither pass nor fail in runtime mode.
C4_NoExecutionExcluded ==
  op = "parseJSONResultsHelper" =>
    \A i \in 1..Len(arg.runs) :
      (Counted(arg.runs[i]) /\ CompilesWithoutExecution(arg.runs[i])) =>
        LET lang == LangOfExt(ExtOf(arg.runs[i].name))
            rest == SummaryWithout(i, ret.mode)
        IN  /\ ret.summary[lang].fail = rest[lang].fail
            /\ ret.summary.failures = rest.failures
            /\ ret.summary[lang].pass =
                 IF ret.mode = "compiler" THEN rest[lang].pass + 1 ELSE rest[lang].pass

\* the runs of the test a Verdict is about
RunsOf(verdict) == Lookup(arg.runs, verdict.name).a

\* C5: the Verdict of a test has compilerResult # 0 iff some run's compiler
\* status result is not 0, and a failing runtime result iff some run's runtime
\* status is failing; a phase that every run passes gets result 0 and reason
\* "Pass".
C5_FoldAcrossRuns ==
  op = "DetailsPage" =>
    \A j \in 1..Len(ret.failures) :
      LET v == ret.failures[j]
          entry == [name |-> v.name, value |-> Arr(RunsOf(v))]
      IN  /\ (v.compilerResult # Num(0)) <=> HasCompilerFailure(entry)
          /\ FailingRuntimeResult(v.runtimeResult) <=> HasRuntimeFailure(entry)
          /\ ~HasCompilerFailure(entry) =>
               (v.compilerResult = Num(0) /\ v.compilerReason = Lit("Pass"))
          /\ ~HasRuntimeFailure(entry) =>
               (v.runtimeResult = Num(0) /\ v.runtimeReason = Lit("Pass"))

\* a Verdict of a test whose first run fails both phases and whose last run
\* passes both
C5_Witness ==
  /\ op = "DetailsPage"
  /\ \E j \in 1..Len(ret.failures) :
       LET runArray == RunsOf(ret.failures[j])
       IN  /\ Len(runArray) = 2
           /\ getCompilerStatus(runArray[1]).result # Num(0)
           /\ FailingRuntimeResult(getRuntimeStatus(runArray[1]).result)
           /\ getCompilerStatus(runArray[2]).result = Num(0)
           /\ getRuntimeStatus(runArray[2]).result = Num(0)
           /\ ret.failures[j].compilerResult # Num(0)

\* C6: when runs of a test fail a phase, the Verdict's result, reason, stderr
\* and stdout/output of that phase are those of the first failing run.
C6_FirstFailureWins ==
  op = "DetailsPage" =>
    \A j \in 1..Len(ret.failures) :
      LET v == ret.failures[j]
          firstCompilerFail == FirstOf(RunsOf(v), {i \in 1..Len(RunsOf(v)) : IsCompilerFail(RunsOf(v)[i])})
          firstRuntimeFail == FirstOf(RunsOf(v), {i \in 1..Len(RunsOf(v)) : IsRuntimeFail(RunsOf(v)[i])})
      IN  /\ Truthy(firstCompilerFail) =>
               /\ v.compilerResult = getCompilerStatus(firstCompilerFail).result
               /\ v.compilerReason = getCompilerStatus(firstCompilerFail).reason
               /\ v.compilerStderr = getCompilerStatus(firstCompilerFail).stderr
               /\ v.compilerStdout = getCompilerStatus(firstCompilerFail).stdout
          /\ Truthy(firstRuntimeFail) =>
               /\ v.runtimeResult = getRuntimeStatus(firstRuntimeFail).result
               /\ v.runtimeReason = getRuntimeStatus(firstRuntimeFail).reason
               /\ v.runtimeStderr = getRuntimeStatus(firstRuntimeFail).stderr
               /\ v.runtimeOutput = getRuntimeStatus(firstRuntimeFail).output

\* C7: for the same document and mode, the per-language count of
\* generateComparisonGraph is the pass count of parseJSONResultsHelper.
C7_GraphCountsAreSummaryPass ==
  op = "generateComparisonGraph" =>
    \A L \in Langs :
      ret.counts[L] = parseJSONResultsHelper(arg, ret.mode)[L].pass

\* runtime-mode counts of a document with a counted test and a test that
\* compiles but has no execution result
C7_Witness ==
  /\ op = "generateComparisonGraph"
  /\ ret.mode = "runtime"
  /\ \E L \in Langs : ret.counts[L] = 1
  /\ \E i \in 1..Len(arg.runs) :
       Counted(arg.runs[i]) /\ CompilesWithoutExecution(arg.runs[i])

\* the section records no result, no return_code and no success flag
NoResultRecorded(section) ==
  \/ ~Truthy(section)
  \/ /\ Field(section, "result").t \in {"undefined", "null"}
     /\ Field(section, "return_code").t \in {"undefined", "null"}
     /\ Field(section, "success").t = "undefined"

C10_PassDespiteText ==
  (op \in {"getCompilerStatus", "getRuntimeStatus"} /\ ret.result = Num(0)) =>
    ret.reason = Lit("Pass")

\* a compilation with result 0 and a keyword line in its error text
C10_Witness ==
  /\ op = "getCompilerStatus"
  /\ ret.result = Num(0)
  /\ Truthy(ret.stderr)
  /\ getResultReason(arg, "compiler") \notin {Lit("Unknown"), Lit("N/A")}

\* the section a status function reads: `compilation`, or `runtime` and then
\* `execution`, or an empty object
SectionRead(run, statusOp) ==
  IF statusOp = "getCompilerStatus"
    THEN Or(Prop(run, "compilation"), Obj(EmptySection))
    ELSE Or(Prop(run, "runtime"), Or(Prop(run, "execution"), Obj(EmptySection)))

Sentinel(statusOp) == IF statusOp = "getCompilerStatus" THEN Num(-1) ELSE Lit("Unknown")

\* a string that spells a number
SpellsNumber(x) ==
  /\ IsStr(x)
  /\ Len(x.s) = 1
  /\ Len(x.s[1]) = 1
  /\ x.s[1][1] \in DOMAIN NumberChunks

\* the number a field holds or spells, if any
CodeValue(x) ==
  IF IsNum(x) THEN x
  ELSE IF SpellsNumber(x) THEN Num(NumberChunks[x.s[1][1]])
  ELSE Undef

\* C11: with the result code read from `result`, or from `return_code` when
\* there is no `result`: a number is returned as is; a string that spells a
\* number is returned as that number; otherwise a boolean success flag gives 0
\* for true and 1 for false; otherwise the result is the sentinel; and when
\* `result` or `return_code` holds a number, the result is one of these
\* numbers (or the number `result` spells) whatever the success flag.
C11_ResolutionOrder ==
  (op \in {"getCompilerStatus", "getRuntimeStatus"} /\ ret # Threw) =>
    LET section == SectionRead(arg, op)
        code == Coalesce(Field(section, "result"), Field(section, "return_code"))
        success == Field(section, "success")
    IN  /\ IsNum(code) => ret.result = code
        /\ SpellsNumber(code) => ret.result = Num(NumberChunks[code.s[1][1]])
        /\ (~IsNum(code) /\ ~SpellsNumber(code) /\ success.t = "boolean") =>
             ret.result = (IF success.b THEN Num(0) ELSE Num(1))
        /\ (~IsNum(code) /\ ~SpellsNumber(code) /\ success.t # "boolean") =>
             ret.result = Sentinel(op)
        /\ (IsNum(Field(section, "result")) \/ IsNum(Field(section, "return_code"))) =>
             ret.result \in {CodeValue(Field(section, "result")),
                             CodeValue(Field(section, "return_code"))} \ {Undef}

\* C12: getCompilerStatus returns the reason "No compilation result", and
\* getRuntimeStatus the result "Unknown" or the reason "No execution result",
\* only when the section it reads records no result, no return_code and no
\* success flag.
C12_SentinelOnlyWithoutResult ==
  /\ (op = "getCompilerStatus" /\ ret # Threw /\ ret.reason = Lit("No compilation result")) =>
       NoResultRecorded(SectionRead(arg, op))
  /\ (op = "getRuntimeStatus" /\ ret # Threw
        /\ (ret.result = Lit("Unknown") \/ ret.reason = Lit("No execution result"))) =>
       NoResultRecorded(SectionRead(arg, op))

\* the lines of a text field, none when the field holds no text
TextLines(x) == IF IsStr(x) THEN x.s ELSE <<>>

\* the lines trimmed, without the blank ones
CleanLines(ls) ==
  SelectSeq([i \in 1..Len(ls) |-> TrimLine(ls[i])], LAMBDA l : l # <<>>)

\* the reason the heuristic gives for the lines of a text: the first line
\* with a keyword, else the first lines, three at most, joined by " | ", else
\* "Unknown"
ReasonOfLines(ls) ==
  LET clean == CleanLines(ls)
      hits == {i \in 1..Len(clean) : MatchesKeyword(clean[i])}
  IN  IF hits # {} THEN Str(<<clean[CHOOSE i \in hits : \A j \in hits : i <= j]>>)
      ELSE IF Len(clean) = 0 THEN Lit("Unknown")
      ELSE IF Len(clean) = 1 THEN Str(<<clean[1]>>)
      ELSE IF Len(clean) = 2 THEN Str(<<clean[1] \o <<" | ">> \o clean[2]>>)
      ELSE Str(<<clean[1] \o <<" | ">> \o clean[2] \o <<" | ">> \o clean[3]>>)

\* the section getResultReason was asked about
ReasonSection == IF ret.type = "compiler" THEN Prop(arg, "compilation") ELSE Prop(arg, "runtime")

C14_ReasonNeverThrows ==
  op = "getResultReason" => (ret # Threw /\ IsStr(ret.reason))

\* the lines of the text of a section: its error text (`errors`, or `stderr`
\* when `errors` has no non-blank line), its stdout and its output
SectionLines(section) ==
  LET errors == TextLines(Field(section, "errors"))
  IN  (IF CleanLines(errors) # <<>> THEN errors ELSE TextLines(Field(section, "stderr")))
      \o TextLines(Field(section, "stdout"))
      \o TextLines(Field(section, "output"))

\* C15: when the result of a status is neither 0 nor the sentinel, its reason
\* is the one the heuristic gives for the text of the section the result was
\* read from (`compilation`; `runtime`, or `execution` when there is no
\* `runtime`): a line of that text, up to three of its lines joined, or
\* "Unknown" when it has none.
C15_ReasonFromSectionRead ==
  (op \in {"getCompilerStatus", "getRuntimeStatus"} /\ ret # Threw
     /\ ret.result \notin {Num(0), Sentinel(op)}) =>
    ret.reason = ReasonOfLines(SectionLines(SectionRead(arg, op)))

\* the entry holds runs that are objects whose sections hold text
WellFormed(entry) == entry.value \in {Arr(<<RunPass>>), Arr(<<RunFail1>>)}

\* C16: on a document with a `runs` mapping, whatever the shape of its
\* entries, parseJSONResultsHelper hands over a Summary that counts every
\* well-formed test of a known language, and the DetailsPage effect a
\* Verdict sequence that holds every well-formed test.
C16_MalformedEntryAbsorbed ==
  /\ op = "parseJSONResultsHelper" =>
       /\ ret # Threw
       /\ \A L \in Langs :
            ret.summary[L].total >=
              Cardinality({i \in 1..Len(arg.runs) :
                             WellFormed(arg.runs[i]) /\ LangOfExt(ExtOf(arg.runs[i].name)) = L})
  /\ op = "DetailsPage" =>
       /\ ret # Threw
       /\ \A i \in 1..Len(arg.runs) :
            WellFormed(arg.runs[i]) =>
              \E j \in 1..Len(ret.failures) : ret.failures[j].name = arg.runs[i].name

\* the names of a sequence of entries, each of which has a name
NamesOf(entries) == [i \in 1..Len(entries) |-> entries[i].name]

\* no name of the sequence sorts after a later one: the lower-cased base name
\* is not greater, and with equal base names the language priority is not
\* greater
InSortOrder(names) ==
  \A i, j \in 1..Len(names) : i < j => CompareNames(names[i], names[j]) <= 0

\* C18: the failures list of parseJSONResultsHelper and the Verdict sequence
\* of DetailsPage are in the order of sortTestNames: of any two entries the
\* earlier one does not sort after the later one.
C18_SortedOutputs ==
  /\ (op = "parseJSONResultsHelper" /\ ret # Threw) => InSortOrder(NamesOf(ret.summary.failures))
  /\ (op = "DetailsPage" /\ ret # Threw) => InSortOrder(NamesOf(ret.failures))

\* two failing tests whose keys stand in the document against the order
C18_Witness ==
  /\ op = "parseJSONResultsHelper"
  /\ ret # Threw
  /\ Len(ret.summary.failures) = 2
  /\ Keys(arg.runs) = << <<"b", ".", "F90">>, <<"a", ".", "cpp">> >>

\* some run of the test fails under the mode
NonPassing(runs, testName, m) ==
  LET runArray == Lookup(runs, testName)
  IN  /\ IsArray(runArray)
      /\ \E k \in 1..Len(runArray.a) :
           IF m = "compiler" THEN IsCompilerFail(runArray.a[k]) ELSE IsRuntimeFail(runArray.a[k])

\* C19: in a Summary the failures list has one entry per test counted as
\* fail and no other: no name twice, every listed test non-passing under the
\* mode, as many entries of a language as its fail count, and as many entries
\* as C.fail + CPP.fail + F90.fail.
C19_FailuresMatchFailCounts ==
  (op = "parseJSONResultsHelper" /\ ret # Threw) =>
    LET list == ret.summary.failures
    IN  /\ \A i, j \in 1..Len(list) : i # j => list[i].name # list[j].name
        /\ \A i \in 1..Len(list) :
             /\ DOMAIN list[i] = {"name", "reason"}
             /\ IsStr(list[i].reason)
             /\ NonPassing(arg.runs, list[i].name, ret.mode)
        /\ \A lang \in Langs :
             Cardinality({i \in 1..Len(list) : LangOfExt(ExtOf(list[i].name)) = lang})
               = ret.summary[lang].fail
        /\ Len(list) = ret.summary.C.fail + ret.summary.CPP.fail + ret.summary.F90.fail

\* runtime mode, one test listed and another one of the document not listed
C19_Witness ==
  /\ op = "parseJSONResultsHelper"
  /\ ret # Threw
  /\ ret.mode = "runtime"
  /\ Len(arg.runs) = 2
  /\ Len(ret.summary.failures) = 1
  /\ ret.summary.C.fail + ret.summary.CPP.fail + ret.summary.F90.fail = 1

\* the name has the form <base>.<extension> and the extension after its last
\* dot, in lower case, is the one of the language
HasExtensionOf(testName, lang) ==
  LET d == LastDot(testName)
  IN  /\ d > 0
      /\ LangOfExt(LowerLine(SubSeq(testName, d + 1, Len(testName)))) = lang

\* C20: a test with runs is counted in the total of a language exactly when
\* its name is <base>.<extension> with the extension of that language; a test
\* of any other name is in no total and not in the failures list, and no
\* error is raised.
C20_CountedIffExtension ==
  (op = "parseJSONResultsHelper" /\ Len(arg.runs) = 1 /\ Len(arg.runs[1].value.a) > 0) =>
    LET testName == arg.runs[1].name
    IN  /\ ret # Threw
        /\ \A lang \in Langs :
             ret.summary[lang].total = 1 <=> HasExtensionOf(testName, lang)
        /\ (\A lang \in Langs : ~HasExtensionOf(testName, lang)) =>
             ret.summary.failures = <<>>

\* C21: a text in the wrapper form `var jsonResults = <json>;` yields the
\* Summary and the Verdicts of the bare <json> text, and so does a text
\* without the wrapper.
C21_WrapperIsTransparent ==
  /\ op = "parseJSONResultsHelper" =>
       (ret # Threw /\ ret.summary = parseJSONResultsHelper(arg.json, ret.mode))
  /\ op = "DetailsPage" =>
       (ret # Threw /\ ret.failures = ClassifyDocument(arg.json))

YieldsNoNumber(x) ==
  \/ IsNullish(x)
  \/ (IsStr(x) /\ x # EmptyStr /\ ~SpellsNumber(x))

\* C23: when `result` yields no number and `return_code` is a number, the
\* status result is return_code.
C23_ReturnCodeAfterResult ==
  (op \in {"getCompilerStatus", "getRuntimeStatus"} /\ ret # Threw) =>
    LET section == SectionRead(arg, op)
    IN  (YieldsNoNumber(Field(section, "result")) /\ IsNum(Field(section, "return_code")))
          => ret.result = Field(section, "return_code")

\* the names of the document with this base name and this extension
Variants(data, base, ext) ==
  {n \in {data.runs[i].name : i \in 1..Len(data.runs)} :
     AppMatches(n) /\ AppBase(n) = base /\ AppExt(n) = ext}

\* the extension that stands for the base name: f90, else cpp, else c
ChosenExt(data, base) ==
  IF Variants(data, base, <<"f90">>) # {} THEN <<"f90">>
  ELSE IF Variants(data, base, <<"cpp">>) # {} THEN <<"cpp">>
  ELSE IF Variants(data, base, <<"c">>) # {} THEN <<"c">>
  ELSE <<>>

\* the test that stands for the base name has a first run, which in runtime
\* mode compiles
ChosenCounts(data, base, m) ==
  \E n \in Variants(data, base, ChosenExt(data, base)) :
    LET testEntry == AppTestEntry(data.runs, n)
    IN  /\ testEntry # Undef
        /\ m = "runtime" => getCompilerStatus(testEntry).result = Num(0)

\* C24: the helper of App.tsx counts at most one test per base name, the
\* f90 variant if there is one, else the cpp variant, else the c variant,
\* and none for a base name without such a variant.
C24_OneRepresentative ==
  (op = "App.parseJSONResultsHelper" /\ ret # Threw) =>
    LET bases == {AppBase(arg.runs[i].name) : i \in {j \in 1..Len(arg.runs) : AppMatches(arg.runs[j].name)}}
        ExtOfLang == [C |-> <<"c">>, CPP |-> <<"cpp">>, F90 |-> <<"f90">>]
    IN  /\ \A lang \in Langs :
             ret.summary[lang].total =
               Cardinality({b \in bases : ChosenExt(arg, b) = ExtOfLang[lang]
                                            /\ ChosenCounts(arg, b, ret.mode)})
        /\ \A i \in 1..Len(ret.summary.failures) :
             LET n == ret.summary.failures[i].name
             IN  n \in Variants(arg, AppBase(n), ChosenExt(arg, AppBase(n)))

\* the c and the f90 variant of one base name, both with runs: the f90
\* variant is counted and listed, the c variant is not
C24_Witness ==
  /\ op = "App.parseJSONResultsHelper"
  /\ ret # Threw
  /\ Keys(arg.runs) = << <<"a", ".", "c">>, <<"a", ".", "F90">> >>
  /\ \A i \in 1..Len(arg.runs) : Len(arg.runs[i].value.a) > 0
  /\ ret.summary.C.total = 0
  /\ ret.summary.F90.total = 1
  /\ Len(ret.summary.failures) = 1

\* the runtime result recorded for the run is the label 'pass', in any case
CarriesPassLabel(run) ==
  LET recorded == Field(SectionRead(run, "getRuntimeStatus"), "result")
  IN  IsStr(recorded) /\ LowerLines(recorded.s) = << <<"pass">> >>

\* C25: a test of a known language whose runs all compile and all record the
\* runtime result 'pass' is counted as pass in runtime mode by
\* parseJSONResultsHelper and by generateComparisonGraph, and is not listed
\* as a failure.
C25_PassLabelPasses ==
  (op \in {"parseJSONResultsHelper", "generateComparisonGraph"} /\ ret # Threw) =>
    LET runArray == arg.runs[1].value.a
        lang == LangOfExt(ExtOf(arg.runs[1].name))
    IN  (/\ ret.mode = "runtime"
         /\ lang # "none"
         /\ Len(runArray) > 0
         /\ \A k \in 1..Len(runArray) :
              getCompilerStatus(runArray[k]).result = Num(0) /\ CarriesPassLabel(runArray[k]))
        => IF op = "parseJSONResultsHelper"
             THEN ret.summary[lang].pass = 1 /\ ret.summary.failures = <<>>
             ELSE ret.counts[lang] = 1

FilePass ==
  [file \in Files |->
     [gm \in Modes |->
        [lang \in Langs |-> parseJSONResultsHelper(ParseFileText(readAsText(file)), gm)[lang].pass]]]

\* the chart of the pass counts of two files under graph mode gm
PassChart(files, gm) ==
  [k \in 1..3 |->
     LET lang == <<"C", "CPP", "F90">>[k]
     IN  [language |-> lang,
          version1 |-> FilePass[files[1]][gm][lang],
          version2 |-> FilePass[files[2]][gm][lang]]]

\* C8: a step in which one reader of a generateComparisonGraph call loads
\* while the other is still pending leaves the chart data as it is; the step
\* in which the last reader of a call loads, in whichever order the two
\* loaded, sets it with version1 the pass counts of the first selected file
\* and version2 those of the second, each computed from its own document.
C8_ChartAfterBothReads ==
  [][\A g \in 1..Len(graphReaders) :
       LET call == graphReaders[g]
       IN  /\ (Cardinality(call.pending) = 1 /\ graphReaders' = RemoveAt(graphReaders, g))
                => comparisonData' = PassChart(call.files, call.graphMode)
           /\ (Len(graphReaders') = Len(graphReaders) /\ graphReaders'[g].pending # call.pending)
                => comparisonData' = comparisonData]_vars

\* a chart with different counts for the two files, set when the reader of
\* the first file loaded after the reader of the second
C8_Witness ==
  /\ graphReaders = <<>>
  /\ lastOnload = Num(0)
  /\ comparisonData # <<>>
  /\ \E k \in 1..3 : comparisonData[k].version1 # comparisonData[k].version2

\* C26: with the graph generated and no read pending any more, the chart
\* data shown is the one of the chosen files under the present graph mode,
\* also when a generation was triggered while reads of an earlier one were
\* pending.
C26_LatestGenerationShown ==
  (graphGenerated /\ graphReaders = <<>>) =>
    comparisonData = PassChart(comparisonFiles, graphMode)

\* C27: while no comparison file is chosen, as after Clear Files, the chart
\* data is empty, also when reads started before the clear load after it.
C27_ClearedStaysEmpty ==
  comparisonFiles = <<>> => comparisonData = <<>>

\* C28: on the home page with a results document held and no upload read
\* pending, the Summary displayed is the one of that document under the
\* selected mode.
C28_SummaryOfCurrentMode ==
  (page = "home" /\ uploadReaders = <<>> /\ rawJsonText # Null /\ ~HelperThrows(rawJsonText)) =>
    summary = parseJSONResultsHelper(ParseFileText(rawJsonText), mode)

\* C29: once no upload read is pending, the text held and the Summary
\* displayed are those of the file chosen last, whose name is shown.
C29_LastSelectedFileShown ==
  (uploadReaders = <<>> /\ Truthy(uploadInput)) =>
    /\ uploadedFileName = NameOf(uploadInput)
    /\ rawJsonText = readAsText(uploadInput)
    /\ summary \in {parseJSONResultsHelper(ParseFileText(readAsText(uploadInput)), m) : m \in Modes}

\* C30: in the summary view of a Summary, as many failures are listed under
\* each language as the Summary counts as failing for it.
C30_ShownFailuresMatchCounts ==
  (op = "parseJSONResultsHelper" /\ ret # Threw) =>
    \A lang \in Langs : Len(FailuresShown(ret.summary, lang)) = ret.summary[lang].fail

=============================================================================
